---- MODULE Spec2Model ----
(***************************************************************************)
(* Model of the terraform-wheels command-line front-end: the command       *)
(* dispatcher of main() and the plugin lifecycle of loadPlugins() and      *)
(* invokeTerraform() (src/main.go), specification Spec; and of the         *)
(* terraform file generator TerraformFileConfig.Generate                   *)
(* (src/utils/tfgen.go), specification SpecGen.                            *)
(*                                                                         *)
(* Strings are modelled as sequences of one-character strings, so that     *)
(* strings.HasPrefix and strings.Contains are computed, not assumed.       *)
(* The argument vector `args` is os.Args[1:]; os.Args[k] is args[k].       *)
(***************************************************************************)
EXTENDS Integers, Sequences, FiniteSets, TLC

VARIABLES
  args,        \* os.Args[1:] of the running invocation
  files,       \* the working directory holds terraform files (sandbox state)
  pc,          \* position in main()
  hasTfFiles,  \* main's local hasTfFiles (line 181)
  cmd_i,       \* main's local cmd_i (line 202)
  cmd_n,       \* main's local cmd_n (line 201)
  lifeArgs,    \* the args parameter of invokeTerraform
  loaded,      \* loadedPlugins (loadPlugins), then the plugins parameter of invokeTerraform
  idx,         \* index of the running range loop
  isInit,      \* invokeTerraform's local isInit
  tfErr,       \* invokeTerraform's local err, the result of tf.Invoke(args)
  exit,        \* exit status of the process, -1 while it runs
  msg,         \* the message given to FatalError, <<>> when there is none
  log,         \* the calls made to the collaborators during this invocation, in order
  \* a TerraformFileConfig and one caller of its Generate() (src/utils/tfgen.go)
  Flags,       \* c.Flags: the (name, value) pairs given on the command line, in order
  PreLines,    \* c.PreLines
  PostLines,   \* c.PostLines
  bodyArr,     \* the backing array of c.BodyLines, spare capacity included
  bodyLen,     \* len(c.BodyLines)
  body0,       \* c.BodyLines as it was when the call in progress began (history)
  genPc,       \* position in Generate()
  lines,       \* Generate's local slice lines: a view of bodyArr or an array of its own
  visitIdx,    \* index of the flag that c.Flags.Visit hands to the callback next
  listValues,  \* Generate's local listValues
  mapValues,   \* Generate's local mapValues
  errs,        \* Generate's local errs
  pending,     \* names of the range loop over listValues or mapValues not yet visited
  allLines,    \* Generate's local allLines
  result,      \* what the call returned: "none" while it runs, "ok" or "formatError"
  again,       \* Generate was called on this configuration before (history)
  prevLines    \* allLines of the call before this one (history)

vars == << args, files, pc, hasTfFiles, cmd_i, cmd_n, lifeArgs,
           loaded, idx, isInit, tfErr, exit, msg, log >>

genVars == << Flags, PreLines, PostLines, bodyArr, bodyLen, body0, genPc, lines,
              visitIdx, listValues, mapValues, errs, pending, allLines, result,
              again, prevLines >>

allVars == << vars, genVars >>

\* no TerraformFileConfig exists
GenOff ==
  /\ Flags = << >>
  /\ PreLines = << >>
  /\ PostLines = << >>
  /\ bodyArr = << >>
  /\ bodyLen = 0
  /\ body0 = << >>
  /\ genPc = "off"
  /\ lines = [ aliased |-> TRUE, len |-> 0, own |-> << >> ]
  /\ visitIdx = 0
  /\ listValues = << >>
  /\ mapValues = << >>
  /\ errs = << >>
  /\ pending = {}
  /\ allLines = << >>
  /\ result = "none"
  /\ again = FALSE
  /\ prevLines = << >>

-----------------------------------------------------------------------------
(* Bounds *)

\* longest argument vector tried
MaxArgs == 3

-----------------------------------------------------------------------------
(* Strings *)

sHelp == <<"h","e","l","p">>
sDash == <<"-">>
sInit == <<"i","n","i","t">>
sPlan == <<"p","l","a","n">>
sChdir == <<"-","c","h","d","i","r","=","x">>
sDashHelp == <<"-","-","h","e","l","p">>
sA == <<"a">>
sWheelsCompleteUpgrade ==
  <<"w","h","e","e","l","s","-","c","o","m","p","l","e","t","e","-","u","p","g","r","a","d","e">>
sWheelsVersion == <<"w","h","e","e","l","s","-","v","e","r","s","i","o","n">>
sWheelsUpgrade == <<"w","h","e","e","l","s","-","u","p","g","r","a","d","e">>
sAddAwsCluster == <<"a","d","d","-","a","w","s","-","c","l","u","s","t","e","r">>
sImportCluster == <<"i","m","p","o","r","t","-","c","l","u","s","t","e","r">>
sAddService == <<"a","d","d","-","s","e","r","v","i","c","e">>

\* strings.HasPrefix(s, prefix)
HasPrefix(s, prefix) ==
  /\ Len(s) >= Len(prefix)
  /\ SubSeq(s, 1, Len(prefix)) = prefix

\* strings.Contains(s, substr)
Contains(s, substr) ==
  \E i \in 0..(Len(s) - Len(substr)) : SubSeq(s, i + 1, i + Len(substr)) = substr

\* the argument words the model runs the program on
Tokens == { sChdir, sDashHelp, sPlan, sAddAwsCluster, sA, sWheelsUpgrade }

ArgVectors == UNION { [1..n -> Tokens] : n \in 0..MaxArgs }

-----------------------------------------------------------------------------
(* Static configuration of main.go *)

knownTerraformCommands ==
  << <<"a","p","p","l","y">>,
     <<"c","o","n","s","o","l","e">>,
     <<"d","e","s","t","r","o","y">>,
     <<"e","n","v">>,
     <<"f","m","t">>,
     <<"g","e","t">>,
     <<"g","r","a","p","h">>,
     <<"i","m","p","o","r","t">>,
     <<"i","n","i","t">>,
     <<"o","u","t","p","u","t">>,
     <<"p","l","a","n">>,
     <<"p","r","o","v","i","d","e","r","s">>,
     <<"p","u","s","h">>,
     <<"r","e","f","r","e","s","h">>,
     <<"s","h","o","w">>,
     <<"t","a","i","n","t">>,
     <<"u","n","t","a","i","n","t">>,
     <<"v","a","l","i","d","a","t","e">>,
     <<"v","e","r","s","i","o","n">>,
     <<"w","o","r","k","s","p","a","c","e">>,
     <<"0",".","1","2","c","h","e","c","k","l","i","s","t">>,
     <<"d","e","b","u","g">>,
     <<"f","o","r","c","e","-","u","n","l","o","c","k">>,
     <<"s","t","a","t","e">> >>

\* the plugin registry, in registration order
plugins == << "ImportCluster", "DcosAws", "SSHAgent", "AddService", "DcosProvider" >>

\* plugin.GetName()
GetName(p) == p

\* plugin.GetCommands(), the names of the command descriptors in declaration order;
\* command names are not checked for uniqueness, and one name is declared twice
GetCommands(p) ==
  CASE p = "ImportCluster" -> << sImportCluster >>
    [] p = "DcosAws"       -> << sAddAwsCluster >>
    [] p = "AddService"    -> << sAddService, sAddAwsCluster >>
    [] OTHER               -> << >>

-----------------------------------------------------------------------------
(* Pure parts of main() and invokeTerraform() *)

\* shouldShowHelp(args): declared in main.go, called nowhere
shouldShowHelp(a) == \E i \in 1..Len(a) : Contains(a[i], sHelp)

\* the help test main() makes: len(os.Args) <= 1 || strings.Contains(os.Args[1], "help")
HelpRequested(a) == Len(a) = 0 \/ Contains(a[1], sHelp)

\* isTerraformCommand: some argument equals some known terraform command
IsTerraformCommand(a) ==
  \E c \in 1..Len(knownTerraformCommands) :
    \E i \in 1..Len(a) : a[i] = knownTerraformCommands[c]

\* a scan that takes the first argument, flag or not
ScanCommandNoSkip(a, i) == IF i > Len(a) THEN 0 ELSE i

\* the scan "ignore flags until we find a command", started at index i;
\* the index of the command, 0 when every argument from i on is a flag
RECURSIVE ScanCommand(_, _)
ScanCommand(a, i) ==
  IF i > Len(a) THEN 0
  ELSE IF HasPrefix(a[i], sDash) THEN ScanCommand(a, i + 1)
  ELSE i

CmdIndex(a) == ScanCommand(a, 1)

CmdName(a) == IF CmdIndex(a) = 0 THEN << >> ELSE a[CmdIndex(a)]

\* the arguments main() hands to a plugin command handler: os.Args[2:]
HandlerArgs(a) == SubSeq(a, 2, Len(a))

\* every (plugin index, command index) of the registry
CommandSlots ==
  UNION { { << p, c >> : c \in 1..Len(GetCommands(plugins[p])) } : p \in 1..Len(plugins) }

\* the (plugin, command) pairs whose command name is n
Matches(n) == { m \in CommandSlots : GetCommands(plugins[m[1]])[m[2]] = n }

\* a lookup that lets the last declaration of a name win
FindPluginCommandLast(n) ==
  IF Matches(n) = {} THEN << 0, 0 >>
  ELSE CHOOSE m \in Matches(n) :
         \A o \in Matches(n) : m[1] > o[1] \/ (m[1] = o[1] /\ m[2] >= o[2])

\* the first match of the nested plugin/command loops, <<0, 0>> when there is none
FindPluginCommand(n) ==
  IF Matches(n) = {} THEN << 0, 0 >>
  ELSE CHOOSE m \in Matches(n) :
         \A o \in Matches(n) : m[1] < o[1] \/ (m[1] = o[1] /\ m[2] <= o[2])

IsPluginCommand(n) == FindPluginCommand(n)[1] # 0

\* invokeTerraform's isInit: some argument is "init"
IsInitArgs(a) == \E i \in 1..Len(a) : a[i] = sInit

BoolStr(b) == IF b THEN "true" ELSE "false"

-----------------------------------------------------------------------------
(* The log of collaborator calls *)

Ev(op, plugin, a, in, res) ==
  [ op |-> op, plugin |-> plugin, args |-> a, in |-> in, res |-> res ]

Errs == { "nil", "error" }

-----------------------------------------------------------------------------
(* Process start and end *)

\* no process runs: the directory is there, the program has not been started
Init ==
  /\ args = << >>
  /\ files \in BOOLEAN
  /\ pc = "idle"
  /\ hasTfFiles = FALSE
  /\ cmd_i = 0
  /\ cmd_n = << >>
  /\ lifeArgs = << >>
  /\ loaded = << >>
  /\ idx = 0
  /\ isInit = FALSE
  /\ tfErr = "nil"
  /\ exit = -1
  /\ msg = << >>
  /\ log = << >>
  /\ GenOff

\* FatalError(err): print the message and end the process with status 1
FatalError(m) ==
  /\ pc' = "exit"
  /\ exit' = 1
  /\ msg' = m

\* an uncaught run-time panic: the Go runtime ends the process with status 2
Panic ==
  /\ pc' = "exit"
  /\ exit' = 2
  /\ msg' = << >>

\* return from main(): status 0
Return ==
  /\ pc' = "exit"
  /\ exit' = 0
  /\ msg' = << >>

-----------------------------------------------------------------------------
(* main(), one action per call to a collaborator *)

(* The version the binary was built with (main.go 14, 145) *)

Digits == { "0", "1", "2", "3", "4", "5", "6", "7", "8", "9" }

Letters ==
  { "a", "b", "c", "d", "e", "f", "g", "h", "i", "j", "k", "l", "m",
    "n", "o", "p", "q", "r", "s", "t", "u", "v", "w", "x", "y", "z",
    "A", "B", "C", "D", "E", "F", "G", "H", "I", "J", "K", "L", "M",
    "N", "O", "P", "Q", "R", "S", "T", "U", "V", "W", "X", "Y", "Z" }

\* the pieces of s between the occurrences of the character sep
RECURSIVE SplitAt(_, _, _)
SplitAt(s, sep, piece) ==
  IF s = << >> THEN << piece >>
  ELSE IF Head(s) = sep THEN << piece >> \o SplitAt(Tail(s), sep, << >>)
  ELSE SplitAt(Tail(s), sep, Append(piece, Head(s)))

\* index of the first character of s that is in the set, 0 if there is none
FirstOf(s, set) ==
  IF \E i \in 1..Len(s) : s[i] \in set
    THEN CHOOSE i \in 1..Len(s) : s[i] \in set /\ \A j \in 1..(i-1) : s[j] \notin set
    ELSE 0

\* a non-empty run of characters of the set
OnlyOf(s, set) == Len(s) >= 1 /\ \A i \in 1..Len(s) : s[i] \in set

\* the decimal digits in order of value
DigitSeq == << "0", "1", "2", "3", "4", "5", "6", "7", "8", "9" >>

\* the value of a decimal digit
DigitVal(ch) == CHOOSE n \in 0..9 : DigitSeq[n + 1] = ch

\* the digits without their leading zeros
RECURSIVE StripZeros(_)
StripZeros(s) ==
  IF s # << >> /\ Head(s) = "0" THEN StripZeros(Tail(s)) ELSE s

\* a <= b for two digit runs of the same length
RECURSIVE LeqDigits(_, _)
LeqDigits(a, b) ==
  IF a = << >> THEN TRUE
  ELSE IF DigitVal(Head(a)) < DigitVal(Head(b)) THEN TRUE
  ELSE IF DigitVal(Head(a)) > DigitVal(Head(b)) THEN FALSE
  ELSE LeqDigits(Tail(a), Tail(b))

\* 2^64 - 1, the largest value strconv.ParseUint(s, 10, 64) returns
MaxUint64Digits ==
  << "1", "8", "4", "4", "6", "7", "4", "4", "0", "7",
     "3", "7", "0", "9", "5", "5", "1", "6", "1", "5" >>

\* strconv.ParseUint(s, 10, 64) of a run of digits returns no range error
FitsUint64(s) ==
  LET t == StripZeros(s)
  IN \/ Len(t) < Len(MaxUint64Digits)
     \/ Len(t) = Len(MaxUint64Digits) /\ LeqDigits(t, MaxUint64Digits)

\* [0-9]+(\.[0-9]+)?(\.[0-9]+)?, each number parsed into 64 bits
IsVersionCore(s) ==
  LET parts == SplitAt(s, ".", << >>)
  IN /\ Len(parts) \in 1..3
     /\ \A k \in 1..Len(parts) : OnlyOf(parts[k], Digits) /\ FitsUint64(parts[k])

\* [0-9A-Za-z\-]+(\.[0-9A-Za-z\-]+)*
IsIdentifiers(s) ==
  LET parts == SplitAt(s, ".", << >>)
  IN \A k \in 1..Len(parts) : OnlyOf(parts[k], Digits \cup Letters \cup { "-" })

\* a pre-release: identifiers, of which a numeric one has no leading zero
IsPrerelease(s) ==
  LET parts == SplitAt(s, ".", << >>)
  IN /\ IsIdentifiers(s)
     /\ \A k \in 1..Len(parts) :
          OnlyOf(parts[k], Digits) => (Len(parts[k]) = 1 \/ parts[k][1] # "0")

\* semver.MustParse(v) returns a version and does not panic:
\* v?core(-prerelease)?(+metadata)?
IsVersion(v) ==
  LET s    == IF Len(v) >= 1 /\ v[1] = "v" THEN Tail(v) ELSE v
      d    == FirstOf(s, { "-", "+" })
      core == IF d = 0 THEN s ELSE SubSeq(s, 1, d - 1)
      rest == IF d = 0 THEN << >> ELSE SubSeq(s, d + 1, Len(s))
      p    == FirstOf(rest, { "+" })
  IN /\ IsVersionCore(core)
     /\ d # 0 =>
          IF s[d] = "+" THEN IsIdentifiers(rest)
          ELSE IF p = 0 THEN IsPrerelease(rest)
          ELSE /\ IsPrerelease(SubSeq(rest, 1, p - 1))
               /\ IsIdentifiers(SubSeq(rest, p + 1, Len(rest)))

\* buildVersion: empty as declared, or what the build sets it to
BuildVersions == { << >>, << "1", ".", "0", ".", "0" >> }

\* main.go 131-162: the reserved wheels-* commands, before any sandbox logic.
\* buildVersion is fixed when the binary is built and read once, at line 145.
EarlyChecks ==
  /\ pc = "main"
  /\ UNCHANGED genVars
  /\ IF Len(args) >= 1 /\ args[1] = sWheelsCompleteUpgrade
       THEN \* CompleteUpgrade(os.Args[2]): index out of range without a second argument
            IF Len(args) < 2
              THEN Panic /\ log' = log
              ELSE Return /\ log' = Append(log, Ev("CompleteUpgrade", "-", << args[2] >>, "-", "nil"))
     ELSE IF Len(args) >= 1 /\ args[1] = sWheelsVersion
       THEN Return /\ log' = log
     ELSE IF Len(args) >= 1 /\ args[1] = sWheelsUpgrade
       THEN \E bv \in BuildVersions :
              IF ~IsVersion(bv)
                THEN \* 145: semver.MustParse(buildVersion) panics
                     Panic /\ log' = log
                ELSE \E err \in Errs, newer \in BOOLEAN, uerr \in Errs :
                       LET got == Ev("GetLatestVersion", "-", << >>, "-", err)
                           upg == Ev("PerformUpgrade", "-", << >>, "-", uerr)
                       IN IF err # "nil"
                            THEN log' = Append(log, got) /\ FatalError(<< err >>)
                          ELSE IF newer
                            THEN /\ log' = log \o << got, upg >>
                                 /\ IF uerr # "nil" THEN FatalError(<< uerr >>) ELSE Return
                          ELSE log' = Append(log, got) /\ Return
     ELSE /\ pc' = "openSandbox"
          /\ UNCHANGED << exit, msg, log >>
  /\ UNCHANGED << args, files, hasTfFiles, cmd_i, cmd_n, lifeArgs,
                  loaded, idx, isInit, tfErr >>

\* main.go 164-178: os.Getwd and OpenSandbox, then the early help test
OpenSandbox ==
  /\ pc = "openSandbox"
  /\ UNCHANGED genVars
  /\ \E err \in Errs :
       IF err # "nil"
         THEN FatalError(<< err >>)
         ELSE /\ pc' = IF HelpRequested(args) THEN "showHelp" ELSE "checkSandbox"
              /\ UNCHANGED << exit, msg >>
  /\ UNCHANGED << args, files, hasTfFiles, cmd_i, cmd_n, lifeArgs,
                  loaded, idx, isInit, tfErr, log >>

\* where main() goes once cmd_i and cmd_n are known (main.go 212-260)
RouteOf(a) ==
  IF CmdIndex(a) = 0 THEN "showHelp"
  ELSE IF IsPluginCommand(CmdName(a)) THEN "pluginGetTerraform"
  ELSE IF ~IsTerraformCommand(a) THEN "showHelp"
  ELSE "getTerraform"

\* main.go 180-260: sandbox.HasTerraformFiles(), then the classification of the command
CheckSandbox ==
  /\ pc = "checkSandbox"
  /\ UNCHANGED genVars
  /\ \E err \in Errs :
       IF err # "nil"
         THEN /\ FatalError(<< err >>)
              /\ log' = Append(log, Ev("HasTerraformFiles", "-", << >>, "-", err))
              /\ UNCHANGED << hasTfFiles, cmd_i, cmd_n >>
         ELSE /\ hasTfFiles' = files
              /\ log' = Append(log, Ev("HasTerraformFiles", "-", << >>, "-", BoolStr(files)))
              /\ cmd_i' = CmdIndex(args)
              /\ cmd_n' = CmdName(args)
              /\ pc' = RouteOf(args)
              /\ UNCHANGED << exit, msg >>
  /\ UNCHANGED << args, files, lifeArgs, loaded, idx, isInit, tfErr >>

\* a showHelp that prints and returns to main(), which then returns with status 0
ShowHelpReturns ==
  /\ pc = "showHelp"
  /\ UNCHANGED genVars
  /\ \E hasTerraform \in BOOLEAN, err \in Errs, helpErr \in Errs :
       IF hasTerraform
         THEN IF err # "nil"
                THEN FatalError(<< err >>) /\ log' = log
                ELSE /\ log' = log \o << Ev("Invoke", "showHelp", << >>, "-", helpErr),
                                         Ev("PluginHelp", "-", << >>, "-", "nil") >>
                     /\ Return
         ELSE /\ err = "nil" /\ helpErr = "nil"
              /\ log' = Append(log, Ev("PluginHelp", "-", << >>, "-", "nil"))
              /\ Return
  /\ UNCHANGED << args, files, hasTfFiles, cmd_i, cmd_n, lifeArgs,
                  loaded, idx, isInit, tfErr >>

\* main.go 67-82: showHelp
ShowHelp ==
  /\ pc = "showHelp"
  /\ UNCHANGED genVars
  /\ \E hasTerraform \in BOOLEAN, err \in Errs, helpErr \in Errs :
       IF hasTerraform
         THEN IF err # "nil"
                THEN FatalError(<< err >>) /\ log' = log
                ELSE /\ log' = log \o << Ev("Invoke", "showHelp", << >>, "-", helpErr),
                                         Ev("PluginHelp", "-", << >>, "-", "nil") >>
                     /\ pc' = "exit" /\ exit' = 1 /\ msg' = << >>
         ELSE /\ err = "nil" /\ helpErr = "nil"
              /\ log' = Append(log, Ev("PluginHelp", "-", << >>, "-", "nil"))
              /\ pc' = "exit" /\ exit' = 1 /\ msg' = << >>
  /\ UNCHANGED << args, files, hasTfFiles, cmd_i, cmd_n, lifeArgs,
                  loaded, idx, isInit, tfErr >>

\* main.go 222-225: sandbox.GetTerraform() for a plugin command
PluginGetTerraform ==
  /\ pc = "pluginGetTerraform"
  /\ UNCHANGED genVars
  /\ \E err \in Errs :
       IF err # "nil"
         THEN FatalError(<< err >>)
         ELSE pc' = "pluginHandle" /\ UNCHANGED << exit, msg >>
  /\ UNCHANGED << args, files, hasTfFiles, cmd_i, cmd_n, lifeArgs,
                  loaded, idx, isInit, tfErr, log >>

\* main.go 227-230: cmd.Handle(os.Args[2:], sandbox, tf); the handler may create
\* or remove terraform files
PluginHandle ==
  /\ pc = "pluginHandle"
  /\ UNCHANGED genVars
  /\ \E err \in Errs, nowFiles \in BOOLEAN :
       LET m == FindPluginCommand(cmd_n) IN
       /\ log' = Append(log, Ev("Handle", plugins[m[1]], HandlerArgs(args), "-", err))
       /\ files' = nowFiles
       /\ IF err # "nil"
            THEN FatalError(<< err >>)
            ELSE pc' = "pluginRequery" /\ UNCHANGED << exit, msg >>
  /\ UNCHANGED << args, hasTfFiles, cmd_i, cmd_n, lifeArgs,
                  loaded, idx, isInit, tfErr >>

\* a first-scaffold test that forgets what the directory held before the handler ran
PluginRequeryForgetful ==
  /\ pc = "pluginRequery"
  /\ UNCHANGED genVars
  /\ \E err \in Errs :
       IF err # "nil"
         THEN /\ FatalError(<< err >>)
              /\ log' = Append(log, Ev("HasTerraformFiles", "-", << >>, "-", err))
         ELSE LET nowHasTfFiles == files IN
              /\ log' = Append(log, Ev("HasTerraformFiles", "-", << >>, "-", BoolStr(nowHasTfFiles)))
              /\ IF nowHasTfFiles
                   THEN pc' = "reload" /\ UNCHANGED << exit, msg >>
                   ELSE Return
  /\ UNCHANGED << args, files, hasTfFiles, cmd_i, cmd_n, lifeArgs,
                  loaded, idx, isInit, tfErr >>

\* main.go 232-251: sandbox.HasTerraformFiles() again, and the first-scaffold test
PluginRequery ==
  /\ pc = "pluginRequery"
  /\ UNCHANGED genVars
  /\ \E err \in Errs :
       IF err # "nil"
         THEN /\ FatalError(<< err >>)
              /\ log' = Append(log, Ev("HasTerraformFiles", "-", << >>, "-", err))
         ELSE LET nowHasTfFiles == files IN
              /\ log' = Append(log, Ev("HasTerraformFiles", "-", << >>, "-", BoolStr(nowHasTfFiles)))
              /\ IF ~hasTfFiles /\ nowHasTfFiles
                   THEN pc' = "reload" /\ UNCHANGED << exit, msg >>
                   ELSE Return
  /\ UNCHANGED << args, files, hasTfFiles, cmd_i, cmd_n, lifeArgs,
                  loaded, idx, isInit, tfErr >>

\* a reload whose failure is not looked at
ReloadIgnoresError ==
  /\ pc = "reload"
  /\ UNCHANGED genVars
  /\ \E err \in Errs :
       /\ log' = Append(log, Ev("Reload", "-", << >>, "-", err))
       /\ pc' = "loadPlugins"
       /\ lifeArgs' = << sInit >>
       /\ loaded' = << >>
       /\ idx' = 1
       /\ UNCHANGED << exit, msg >>
  /\ UNCHANGED << args, files, hasTfFiles, cmd_i, cmd_n, isInit, tfErr >>

\* main.go 242-248: sandbox.ReloadTerraformProject(), then the lifecycle on ["init"]
ReloadTerraformProject ==
  /\ pc = "reload"
  /\ UNCHANGED genVars
  /\ \E err \in Errs :
       /\ log' = Append(log, Ev("Reload", "-", << >>, "-", err))
       /\ IF err # "nil"
            THEN FatalError(<< err >>) /\ UNCHANGED << lifeArgs, loaded, idx >>
            ELSE /\ pc' = "loadPlugins"
                 /\ lifeArgs' = << sInit >>
                 /\ loaded' = << >>
                 /\ idx' = 1
                 /\ UNCHANGED << exit, msg >>
  /\ UNCHANGED << args, files, hasTfFiles, cmd_i, cmd_n, isInit, tfErr >>

\* main.go 263-271: sandbox.GetTerraform(), then the lifecycle on os.Args[1:]
GetTerraform ==
  /\ pc = "getTerraform"
  /\ UNCHANGED genVars
  /\ \E err \in Errs :
       IF err # "nil"
         THEN FatalError(<< err >>) /\ UNCHANGED << lifeArgs, loaded, idx >>
         ELSE /\ pc' = "loadPlugins"
              /\ lifeArgs' = args
              /\ loaded' = << >>
              /\ idx' = 1
              /\ UNCHANGED << exit, msg >>
  /\ UNCHANGED << args, files, hasTfFiles, cmd_i, cmd_n, isInit, tfErr, log >>

-----------------------------------------------------------------------------
(* loadPlugins() and invokeTerraform() *)

\* a loadPlugins that keeps every plugin, used or not
LoadPluginsKeepAll ==
  /\ pc = "loadPlugins"
  /\ UNCHANGED genVars
  /\ idx <= Len(plugins)
  /\ \E res \in { "used", "unused", "error" } :
       /\ log' = Append(log, Ev("IsUsed", plugins[idx], << >>, "-", res))
       /\ IF res = "error"
            THEN FatalError(<< "error" >>) /\ UNCHANGED << loaded, idx >>
            ELSE /\ loaded' = Append(loaded, plugins[idx])
                 /\ idx' = idx + 1
                 /\ UNCHANGED << pc, exit, msg >>
  /\ UNCHANGED << args, files, hasTfFiles, cmd_i, cmd_n, lifeArgs,
                  isInit, tfErr >>

\* a loadPlugins that takes an IsUsed error for "not used" and goes on
LoadPluginsIgnoreError ==
  /\ pc = "loadPlugins"
  /\ UNCHANGED genVars
  /\ idx <= Len(plugins)
  /\ \E res \in { "used", "unused", "error" } :
       /\ log' = Append(log, Ev("IsUsed", plugins[idx], << >>, "-", res))
       /\ loaded' = IF res = "used" THEN Append(loaded, plugins[idx]) ELSE loaded
       /\ idx' = idx + 1
       /\ UNCHANGED << pc, exit, msg >>
  /\ UNCHANGED << args, files, hasTfFiles, cmd_i, cmd_n, lifeArgs,
                  isInit, tfErr >>

\* main.go 115-125: one turn of the loop of loadPlugins
LoadPlugins ==
  /\ pc = "loadPlugins"
  /\ UNCHANGED genVars
  /\ idx <= Len(plugins)
  /\ \E res \in { "used", "unused", "error" } :
       /\ log' = Append(log, Ev("IsUsed", plugins[idx], << >>, "-", res))
       /\ IF res = "error"
            THEN FatalError(<< "error" >>) /\ UNCHANGED << loaded, idx >>
            ELSE /\ loaded' = IF res = "used" THEN Append(loaded, plugins[idx]) ELSE loaded
                 /\ idx' = idx + 1
                 /\ UNCHANGED << pc, exit, msg >>
  /\ UNCHANGED << args, files, hasTfFiles, cmd_i, cmd_n, lifeArgs,
                  isInit, tfErr >>

\* main.go 127, 84-91: loadPlugins returns, invokeTerraform starts and computes isInit
EnterInvokeTerraform ==
  /\ pc = "loadPlugins"
  /\ UNCHANGED genVars
  /\ idx > Len(plugins)
  /\ pc' = "beforeRun"
  /\ idx' = 1
  /\ isInit' = IsInitArgs(lifeArgs)
  /\ UNCHANGED << args, files, hasTfFiles, cmd_i, cmd_n, lifeArgs,
                  loaded, tfErr, exit, msg, log >>

\* a pre-run loop that reports a failing BeforeRun and goes on
BeforeRunContinues ==
  /\ pc = "beforeRun"
  /\ UNCHANGED genVars
  /\ idx <= Len(loaded)
  /\ \E err \in Errs :
       /\ log' = Append(log, Ev("BeforeRun", loaded[idx], << >>, BoolStr(isInit), err))
       /\ idx' = idx + 1
       /\ UNCHANGED << pc, exit, msg >>
  /\ UNCHANGED << args, files, hasTfFiles, cmd_i, cmd_n, lifeArgs,
                  loaded, isInit, tfErr >>

\* main.go 94-99: one turn of the pre-run loop
BeforeRun ==
  /\ pc = "beforeRun"
  /\ UNCHANGED genVars
  /\ idx <= Len(loaded)
  /\ \E err \in Errs :
       /\ log' = Append(log, Ev("BeforeRun", loaded[idx], << >>, BoolStr(isInit), err))
       /\ IF err # "nil"
            THEN FatalError(<< "Could not start ", GetName(loaded[idx]), ": ", err >>)
                 /\ idx' = idx
            ELSE idx' = idx + 1 /\ UNCHANGED << pc, exit, msg >>
  /\ UNCHANGED << args, files, hasTfFiles, cmd_i, cmd_n, lifeArgs,
                  loaded, isInit, tfErr >>

\* a delegation whose failure is fatal
InvokeFatal ==
  /\ pc = "beforeRun"
  /\ UNCHANGED genVars
  /\ idx > Len(loaded)
  /\ \E err \in Errs :
       /\ log' = Append(log, Ev("Invoke", "invokeTerraform", lifeArgs, "-", err))
       /\ tfErr' = err
       /\ IF err # "nil"
            THEN FatalError(<< err >>) /\ idx' = idx
            ELSE pc' = "afterRun" /\ idx' = 1 /\ UNCHANGED << exit, msg >>
  /\ UNCHANGED << args, files, hasTfFiles, cmd_i, cmd_n, lifeArgs,
                  loaded, isInit >>

\* main.go 101-102: err := tf.Invoke(args)
Invoke ==
  /\ pc = "beforeRun"
  /\ UNCHANGED genVars
  /\ idx > Len(loaded)
  /\ \E err \in Errs :
       /\ log' = Append(log, Ev("Invoke", "invokeTerraform", lifeArgs, "-", err))
       /\ tfErr' = err
  /\ pc' = "afterRun"
  /\ idx' = 1
  /\ UNCHANGED << args, files, hasTfFiles, cmd_i, cmd_n, lifeArgs,
                  loaded, isInit, exit, msg >>

\* main.go 105-110: one turn of the post-run loop. The message is built from
\* err.Error(), err being the result of tf.Invoke: a nil err panics.
AfterRun ==
  /\ pc = "afterRun"
  /\ UNCHANGED genVars
  /\ idx <= Len(loaded)
  /\ \E perr \in Errs :
       /\ log' = Append(log, Ev("AfterRun", loaded[idx], << >>, tfErr, perr))
       /\ IF perr # "nil"
            THEN /\ IF tfErr = "nil"
                      THEN Panic
                      ELSE FatalError(<< "Could not finalize ", GetName(loaded[idx]), ": ", tfErr >>)
                 /\ idx' = idx
            ELSE idx' = idx + 1 /\ UNCHANGED << pc, exit, msg >>
  /\ UNCHANGED << args, files, hasTfFiles, cmd_i, cmd_n, lifeArgs,
                  loaded, isInit, tfErr >>

\* main.go 111, 251, 273-279: invokeTerraform returns and main() returns
Finish ==
  /\ pc = "afterRun"
  /\ UNCHANGED genVars
  /\ idx > Len(loaded)
  /\ Return
  /\ UNCHANGED << args, files, hasTfFiles, cmd_i, cmd_n, lifeArgs,
                  loaded, idx, isInit, tfErr, log >>

\* the user starts the program in the directory with some argument vector;
\* this can happen any number of times, one process after the other
StartProcess ==
  /\ pc = "idle"
  /\ UNCHANGED genVars
  /\ args' \in ArgVectors
  /\ pc' = "main"
  /\ UNCHANGED << files, hasTfFiles, cmd_i, cmd_n, lifeArgs, loaded, idx, isInit,
                  tfErr, exit, msg, log >>

\* the process is gone: its memory is released, the directory stays as it is
ProcessGone ==
  /\ pc = "exit"
  /\ UNCHANGED genVars
  /\ pc' = "idle"
  /\ args' = << >>
  /\ hasTfFiles' = FALSE
  /\ cmd_i' = 0
  /\ cmd_n' = << >>
  /\ lifeArgs' = << >>
  /\ loaded' = << >>
  /\ idx' = 0
  /\ isInit' = FALSE
  /\ tfErr' = "nil"
  /\ exit' = -1
  /\ msg' = << >>
  /\ log' = << >>
  /\ UNCHANGED files

Next ==
  \/ StartProcess
  \/ EarlyChecks
  \/ OpenSandbox
  \/ CheckSandbox
  \/ ShowHelp
  \/ PluginGetTerraform
  \/ PluginHandle
  \/ PluginRequery
  \/ ReloadTerraformProject
  \/ GetTerraform
  \/ LoadPlugins
  \/ EnterInvokeTerraform
  \/ BeforeRun
  \/ Invoke
  \/ AfterRun
  \/ Finish
  \/ ProcessGone

Spec == Init /\ [][Next]_allVars

-----------------------------------------------------------------------------
(* What the log of an invocation shows *)

LogIdx == 1..Len(log)

IsLifecycleInvoke(e) == e.op = "Invoke" /\ e.plugin = "invokeTerraform"

IsLifecycleEvent(e) == e.op \in { "IsUsed", "BeforeRun", "AfterRun" } \/ IsLifecycleInvoke(e)

\* the delegations made by invokeTerraform
LifecycleInvokes == { i \in LogIdx : IsLifecycleInvoke(log[i]) }

\* a plugin command handler was called
HandleRan == \E i \in LogIdx : log[i].op = "Handle"

\* no handler, no detect-usage, no hook, no delegation by the lifecycle
NothingDispatched == \A i \in LogIdx : log[i].op # "Handle" /\ ~IsLifecycleEvent(log[i])

\* the positions of main() on the plugin-dispatch and passthrough branches
PluginPcs == { "pluginGetTerraform", "pluginHandle", "pluginRequery", "reload" }
LifecyclePcs == { "loadPlugins", "beforeRun", "afterRun" }

\* the lifecycle events of the log, in order
LC == SelectSeq(log, IsLifecycleEvent)

Shape(s) == [ i \in 1..Len(s) |-> << s[i].op, s[i].plugin >> ]

Stage(op, ps) == [ i \in 1..Len(ps) |-> << op, ps[i] >> ]

IsUsedReported(p, r) ==
  \E i \in LogIdx : log[i].op = "IsUsed" /\ log[i].plugin = p /\ log[i].res = r

ReportedUsed(p) == IsUsedReported(p, "used")

\* the plugins whose detect-usage reported "used", in registration order
ActivePlugins == SelectSeq(plugins, ReportedUsed)

\* the order of events of one complete lifecycle
FullShape ==
  Stage("IsUsed", plugins) \o Stage("BeforeRun", ActivePlugins)
    \o << << "Invoke", "invokeTerraform" >> >> \o Stage("AfterRun", ActivePlugins)

IsPrefix(s, t) == Len(s) <= Len(t) /\ s = SubSeq(t, 1, Len(s))

Names(m, p) == \E k \in 1..Len(m) : m[k] = GetName(p)

IsFlag(w) == Len(w) >= 1 /\ w[1] = "-"

AllFlags(a) == \A i \in 1..Len(a) : IsFlag(a[i])

\* i is the position of the first argument that is no flag
FirstNonFlag(a, i) ==
  /\ i \in 1..Len(a)
  /\ ~IsFlag(a[i])
  /\ \A j \in 1..(i - 1) : IsFlag(a[j])

KnownSet == { knownTerraformCommands[c] : c \in 1..Len(knownTerraformCommands) }

Declares(p, n) == \E c \in 1..Len(GetCommands(p)) : GetCommands(p)[c] = n

DeclaredByAPlugin(n) == \E k \in 1..Len(plugins) : Declares(plugins[k], n)

IsMetaCommand(a) ==
  Len(a) >= 1 /\ a[1] \in { sWheelsCompleteUpgrade, sWheelsVersion, sWheelsUpgrade }

-----------------------------------------------------------------------------
(* Claims *)

\* C1: when the pre-hook (BeforeRun) of an active plugin fails, that call is the
\* last call of the invocation: the external tool is not invoked and no AfterRun
\* of any plugin runs, also for the plugins whose pre-hooks had succeeded; the
\* process ends with a fatal error that names the failing plugin.
C1_PreHookFailureAborts ==
  \A i \in LogIdx :
    (log[i].op = "BeforeRun" /\ log[i].res # "nil") =>
      /\ i = Len(log)
      /\ \A j \in LogIdx : ~IsLifecycleInvoke(log[j]) /\ log[j].op # "AfterRun"
      /\ pc = "exit" /\ exit = 1
      /\ Names(msg, log[i].plugin)

\* a second active plugin's pre-hook failed after the first one's had succeeded
C1_Witness ==
  /\ pc = "exit"
  /\ \E i \in LogIdx, j \in LogIdx :
       /\ i < j
       /\ log[i].op = "BeforeRun" /\ log[i].res = "nil"
       /\ log[j].op = "BeforeRun" /\ log[j].res # "nil"

\* C2: a plugin-command invocation makes at most one automatic delegation, of
\* exactly ["init"]; started in a directory without terraform files, with a
\* handler that succeeded and created the first one, an invocation that is not
\* ended by a fatal error has made exactly one; started in a directory that
\* already holds files (a later invocation, once a first one has created them),
\* or with a handler that left none, it makes none, and neither reloads the
\* project nor runs a plugin hook.
C2_FirstScaffoldInitOnce ==
  HandleRan =>
    /\ Cardinality(LifecycleInvokes) <= 1
    /\ \A i \in LifecycleInvokes : log[i].args = << sInit >>
    /\ (pc = "exit" /\ exit # 1 /\ ~hasTfFiles /\ files) =>
         Cardinality(LifecycleInvokes) = 1
    /\ (hasTfFiles \/ ~files) =>
         \A i \in LogIdx : ~IsLifecycleEvent(log[i]) /\ log[i].op # "Reload"

\* the first file was created by the handler and the automatic init has run
C2_Witness ==
  /\ pc = "exit" /\ exit = 0
  /\ HandleRan
  /\ ~hasTfFiles /\ files
  /\ \E i \in LifecycleInvokes : log[i].args = << sInit >>

\* C3: in a passthrough invocation the lifecycle calls come in this order:
\* IsUsed of every registered plugin in registration order, BeforeRun of the
\* plugins that reported "used" in registration order, one delegation of the
\* original argument vector, AfterRun of the same plugins in registration order.
\* What has happened so far is always a prefix of that sequence, and an
\* invocation that ends normally has made all of it.
C3_LifecycleOrder ==
  ~HandleRan =>
    /\ IsPrefix(Shape(LC), FullShape)
    /\ \A i \in LifecycleInvokes : log[i].args = args
    /\ (pc = "exit" /\ exit = 0 /\ ~IsMetaCommand(args)) => Shape(LC) = FullShape

\* a passthrough invocation ended normally with a used and an unused plugin
C3_Witness ==
  /\ pc = "exit" /\ exit = 0
  /\ ~HandleRan
  /\ LifecycleInvokes # {}
  /\ \E p \in 1..Len(plugins), q \in 1..Len(plugins) :
       /\ IsUsedReported(plugins[p], "unused")
       /\ IsUsedReported(plugins[q], "used")
  /\ Len(ActivePlugins) >= 2

\* C4 (as claimed): a failing post-hook (AfterRun) ends the invocation, after the
\* delegation has run, in a fatal error whose message names the failing plugin,
\* whether the delegation succeeded or failed; no later post-hook runs.
C4_PostHookFailureNamesPlugin ==
  \A i \in LogIdx :
    (log[i].op = "AfterRun" /\ log[i].res # "nil") =>
      /\ i = Len(log)
      /\ \E j \in LifecycleInvokes : j < i
      /\ pc = "exit" /\ exit = 1
      /\ Names(msg, log[i].plugin)

\* C5: the result of the delegation, success or error, does not end the
\* invocation: after either the process runs on (or, with no post-hook left to
\* call, has ended normally); every AfterRun call
\* receives the result the delegation returned; and when no post-hook has
\* failed, every active plugin's post-hook has been called by the end.
C5_DelegationResultHandedToPostHooks ==
  /\ \A i \in LifecycleInvokes :
       /\ i = Len(log) => exit \in { -1, 0 }
       /\ \A j \in LogIdx : log[j].op = "AfterRun" => (i < j /\ log[j].in = log[i].res)
  /\ \A j \in LogIdx : log[j].op = "AfterRun" => LifecycleInvokes # {}
  /\ ( /\ pc = "exit"
       /\ LifecycleInvokes # {}
       /\ \A j \in LogIdx : log[j].op = "AfterRun" => log[j].res = "nil" )
     => /\ exit = 0
        /\ Shape(SelectSeq(log, LAMBDA e : e.op = "AfterRun")) = Stage("AfterRun", ActivePlugins)

\* the delegation failed and the post-hooks of two active plugins got its error
C5_Witness ==
  /\ pc = "exit" /\ exit = 0
  /\ \E i \in LifecycleInvokes : log[i].res = "error"
  /\ Cardinality({ j \in LogIdx : log[j].op = "AfterRun" /\ log[j].in = "error" }) >= 2

\* C6: when IsUsed of a registered plugin returns an error, that call is the last
\* call of the invocation: no later plugin is asked, no pre-hook, no delegation
\* and no post-hook runs, and the process ends with a fatal error.
C6_DetectUsageErrorAborts ==
  \A i \in LogIdx :
    (log[i].op = "IsUsed" /\ log[i].res = "error") =>
      /\ i = Len(log)
      /\ \A j \in LogIdx :
           /\ log[j].op \notin { "BeforeRun", "AfterRun" }
           /\ ~IsLifecycleInvoke(log[j])
      /\ pc = "exit" /\ exit = 1

\* detect-usage failed for a plugin that is not the last of the registry
C6_Witness ==
  /\ pc = "exit"
  /\ \E i \in LogIdx :
       /\ log[i].op = "IsUsed" /\ log[i].res = "error"
       /\ log[i].plugin = plugins[2]

\* C7 (as claimed): with an empty argument vector, or with "help" inside any
\* argument at any position, the invocation goes to help mode: it enters neither
\* plugin dispatch nor the lifecycle, and no handler, hook or delegation runs.
C7_HelpAnywhereRoutesToHelp ==
  (pc # "idle" /\ (Len(args) = 0 \/ shouldShowHelp(args))) =>
    /\ pc \notin PluginPcs \cup LifecyclePcs \cup { "getTerraform" }
    /\ NothingDispatched

\* C8 (as claimed): the handler of a plugin command receives exactly the
\* arguments that follow the effective command name, whatever the number of
\* flags before it.
C8_HandlerGetsArgsAfterCommand ==
  \A i \in LogIdx :
    log[i].op = "Handle" =>
      \E k \in 1..Len(args) :
        /\ FirstNonFlag(args, k)
        /\ log[i].args = SubSeq(args, k + 1, Len(args))

\* C9 (as claimed): when the effective command name is no plugin command, the
\* invocation goes through the lifecycle with the original vector if and only if
\* the effective command name is itself a known terraform command; otherwise it
\* goes to help mode and the lifecycle does not run.
C9_PassthroughIffEffectiveCommandKnown ==
  \A k \in 1..Len(args) :
    ( /\ FirstNonFlag(args, k)
      /\ ~DeclaredByAPlugin(args[k])
      /\ pc \notin { "idle", "main", "openSandbox", "checkSandbox" }
      /\ ~IsMetaCommand(args)
      /\ ~HelpRequested(args) )
    => IF args[k] \in KnownSet
         THEN /\ pc \in LifecyclePcs \cup { "getTerraform", "exit" }
              /\ \A i \in LogIdx : log[i].op # "PluginHelp"
              /\ \A i \in LifecycleInvokes : log[i].args = args
         ELSE /\ pc \in { "showHelp", "exit" }
              /\ NothingDispatched

\* C10: the command main() looks up is the first argument that does not start
\* with "-": a handler that runs belongs to a plugin declaring that argument as a
\* command, and plugin dispatch or passthrough is entered only when there is such
\* an argument. When every argument is a flag the invocation goes to help mode:
\* nothing is dispatched and the process ends with status 1.
C10_EffectiveCommandSkipsFlags ==
  /\ cmd_i > 0 => (FirstNonFlag(args, cmd_i) /\ cmd_n = args[cmd_i])
  /\ (pc \in PluginPcs \cup LifecyclePcs \cup { "getTerraform" }) => cmd_i > 0
  /\ \A i \in LogIdx :
       log[i].op = "Handle" =>
         \E k \in 1..Len(args) : FirstNonFlag(args, k) /\ Declares(log[i].plugin, args[k])
  /\ (pc # "idle" /\ AllFlags(args)) =>
       /\ cmd_i = 0
       /\ pc \in { "main", "openSandbox", "checkSandbox", "showHelp", "exit" }
       /\ NothingDispatched
       /\ pc = "exit" => exit = 1

\* ["-chdir=x", "plan"]: the flag was skipped and "plan" was delegated
C10_Witness ==
  /\ args = << sChdir, sPlan >>
  /\ cmd_i = 2 /\ cmd_n = sPlan
  /\ LifecycleInvokes # {}

\* the positions of the log that hold a call of op
OpIdx(op) == { i \in LogIdx : log[i].op = op }

\* the calls of a first-scaffold invocation, in order, h being the handler's plugin
ScaffoldShape(h) ==
  << << "HasTerraformFiles", "-" >>, << "Handle", h >>,
     << "HasTerraformFiles", "-" >>, << "Reload", "-" >> >> \o FullShape

\* C15: in an invocation that runs a plugin command the calls come in this
\* order: the handler, the re-query of the sandbox, the reload of the project,
\* then the whole lifecycle (IsUsed of all plugins, pre-hooks, one delegation of
\* exactly ["init"], post-hooks). The re-query is made only after the handler
\* returned without error, the reload only after the re-query found files where
\* the first query had found none, and a failing reload is the last call: no
\* IsUsed, no hook and no delegation follows it.
C15_FirstScaffoldOrder ==
  HandleRan =>
    /\ \A h \in OpIdx("Handle") :
         /\ IsPrefix(Shape(log), ScaffoldShape(log[h].plugin))
         /\ log[h].res # "nil" => h = Len(log)
    /\ \A r \in OpIdx("Reload") :
         /\ log[1].res = "false" /\ log[3].res = "true"
         /\ log[r].res # "nil" => (r = Len(log) /\ pc = "exit" /\ exit = 1)
    /\ \A i \in LifecycleInvokes : log[i].args = << sInit >>
    /\ (pc = "exit" /\ exit = 0 /\ OpIdx("Reload") # {}) =>
         \A h \in OpIdx("Handle") : Shape(log) = ScaffoldShape(log[h].plugin)

\* the automatic init ran to the end, with the post-hook of an active plugin
C15_Witness ==
  /\ pc = "exit" /\ exit = 0
  /\ \E r \in OpIdx("Reload") : log[r].res = "nil"
  /\ OpIdx("AfterRun") # {}

\* C16: help mode ends the process with status 1: from showHelp the next step is
\* the end of the process with a non-zero status, whatever led there (no
\* argument, "help" in the first argument, only flags, an unrecognized command);
\* once the plugin help is printed nothing else is called, and neither a plugin
\* handler nor the lifecycle has run or runs afterwards.
C16_HelpModeExitsNonZero ==
  /\ [](pc = "showHelp" => NothingDispatched)
  /\ [](\A i \in OpIdx("PluginHelp") :
          i = Len(log) /\ pc = "exit" /\ exit = 1 /\ NothingDispatched)
  /\ [][pc = "showHelp" => (pc' = "exit" /\ exit' = 1 /\ NothingDispatched')]_vars

\* help was printed for an unrecognized command that follows a flag
C16_Witness ==
  /\ pc = "exit" /\ exit = 1
  /\ OpIdx("PluginHelp") # {}
  /\ cmd_i = 2
  /\ cmd_n = sA

PluginIndex(p) == CHOOSE k \in 1..Len(plugins) : plugins[k] = p

\* C17: an invocation calls at most one plugin command handler, that of the
\* first plugin in registration order that declares the effective command name;
\* once a handler has been called main() is on the plugin branch only: it does
\* not reach the passthrough branch and does not delegate the original vector.
C17_AtMostOneHandlerFirstMatch ==
  /\ Cardinality(OpIdx("Handle")) <= 1
  /\ \A h \in OpIdx("Handle") :
       \E k \in 1..Len(args) :
         /\ FirstNonFlag(args, k)
         /\ Declares(log[h].plugin, args[k])
         /\ \A j \in 1..(PluginIndex(log[h].plugin) - 1) : ~Declares(plugins[j], args[k])
  /\ HandleRan =>
       /\ pc \in { "pluginHandle", "pluginRequery", "reload", "exit" } \cup LifecyclePcs
       /\ \A i \in LifecycleInvokes : log[i].args # args

\* the handler of the first of two plugins declaring "add-aws-cluster" has run
C17_Witness ==
  /\ pc = "exit" /\ exit = 0
  /\ cmd_n = sAddAwsCluster
  /\ Cardinality(Matches(cmd_n)) = 2
  /\ \E h \in OpIdx("Handle") : log[h].plugin = "DcosAws"

-----------------------------------------------------------------------------
(***************************************************************************)
(* TerraformFileConfig.Generate (src/utils/tfgen.go)                       *)
(*                                                                         *)
(* A Go slice is a view (array, length, capacity).  `lines` starts as a    *)
(* view of the array of c.BodyLines, so the delete idiom of lines 104-106  *)
(* and an append within the capacity write into the caller's array; an     *)
(* append beyond the capacity moves `lines` to an array of its own.        *)
(***************************************************************************)

(* Bounds *)

\* longest body tried
MaxBody == 2

\* largest number of flag occurrences on the command line
MaxSupplied == 2

(* Strings *)

nFoo == <<"f","o","o">>
nLabels == <<"l","a","b","e","l","s">>
nTags == <<"t","a","g","s">>
nZoo == <<"z","o","o">>
vQuoted == <<"v","\"","q">>
vZ == <<"z">>
vLineBreak == <<"z","\n","w">>
vA == <<"a">>
vB == <<"b">>
vKV == <<"k","=","v">>
vBroken == <<"b","r","o","k","e","n">>
lFooOld == <<"f","o","o"," ","="," ","\"","o","l","d","\"">>
lFooRef == <<"#"," ","f","o","o">>
lZooOld == <<"z","o","o"," ","="," ","\"","o","l","d","\"">>
lTagsOld == <<"t","a","g","s"," ","="," ","\"","o","l","d","\"">>
lPre == <<"m","o","d","u","l","e"," ","\"","x","\""," ","{">>
lPost == <<"}">>
sAssign == <<" ","="," ">>
sOpenList == <<" ","="," ","[">>
sOpenMap == <<" ","="," ","{">>
sIndent == <<" "," ">>
sEmpty == << >>

(* The configurations and command lines tried *)

\* the flags defined on c.Flags, in the lexical order flag.FlagSet.Visit uses
FlagNames == << nFoo, nLabels, nTags, nZoo >>

\* c.ListFlags and c.MapFlags
ListFlags == << nTags >>
MapFlags == << nLabels >>

\* one occurrence of a flag on the command line: << name, value >>
Occurrences ==
  { << nFoo, vQuoted >>, << nZoo, vZ >>, << nZoo, vLineBreak >>,
    << nTags, vA >>, << nTags, vB >>,
    << nLabels, vKV >>, << nLabels, vBroken >> }

CommandLines == UNION { [1..n -> Occurrences] : n \in 0..MaxSupplied }

BodyLineChoices == { lFooOld, lFooRef, lZooOld, lTagsOld }

Bodies == UNION { [1..n -> BodyLineChoices] : n \in 0..MaxBody }

\* cap(c.BodyLines) - len(c.BodyLines): none for a slice literal, some for a
\* slice that was built with append
SpareCapacities == { 0, 1 }

(* Pure parts *)

\* tfgen.go 71-78
IsList(name) == \E k \in 1..Len(ListFlags) : ListFlags[k] = name

\* tfgen.go 80-87: ranges over c.ListFlags
IsMap(name) == \E k \in 1..Len(ListFlags) : ListFlags[k] = name

\* the flag was set on the command line (flag.FlagSet.actual)
IsSet(fl, name) == \E k \in 1..Len(fl) : fl[k][1] = name

\* flag.FlagSet.Visit: the set flags, each once, in lexical order of name
Visited(fl) == SelectSeq(FlagNames, LAMBDA n : IsSet(fl, n))

\* f.Value.String(): one string per flag, the one the last Set stored
ValueString(fl, name) ==
  LET last == CHOOSE k \in 1..Len(fl) :
                /\ fl[k][1] = name
                /\ \A j \in (k+1)..Len(fl) : fl[j][1] # name
  IN fl[last][2]

\* A character that TLA+ has no string literal for is written by its code
\* point, "U+0008"; a byte that is not valid UTF-8 is written "invalid".
\* encoding/json writes these as \u00hh (all below U+0020 but \t, \n, \r),
\* \u2028, \u2029 and \ufffd.
UnicodeEscape ==
  ("U+0000" :> << "\\", "u", "0", "0", "0", "0" >>) @@
  ("U+0001" :> << "\\", "u", "0", "0", "0", "1" >>) @@
  ("U+0002" :> << "\\", "u", "0", "0", "0", "2" >>) @@
  ("U+0003" :> << "\\", "u", "0", "0", "0", "3" >>) @@
  ("U+0004" :> << "\\", "u", "0", "0", "0", "4" >>) @@
  ("U+0005" :> << "\\", "u", "0", "0", "0", "5" >>) @@
  ("U+0006" :> << "\\", "u", "0", "0", "0", "6" >>) @@
  ("U+0007" :> << "\\", "u", "0", "0", "0", "7" >>) @@
  ("U+0008" :> << "\\", "u", "0", "0", "0", "8" >>) @@
  ("U+000b" :> << "\\", "u", "0", "0", "0", "b" >>) @@
  ("U+000e" :> << "\\", "u", "0", "0", "0", "e" >>) @@
  ("U+000f" :> << "\\", "u", "0", "0", "0", "f" >>) @@
  ("U+0010" :> << "\\", "u", "0", "0", "1", "0" >>) @@
  ("U+0011" :> << "\\", "u", "0", "0", "1", "1" >>) @@
  ("U+0012" :> << "\\", "u", "0", "0", "1", "2" >>) @@
  ("U+0013" :> << "\\", "u", "0", "0", "1", "3" >>) @@
  ("U+0014" :> << "\\", "u", "0", "0", "1", "4" >>) @@
  ("U+0015" :> << "\\", "u", "0", "0", "1", "5" >>) @@
  ("U+0016" :> << "\\", "u", "0", "0", "1", "6" >>) @@
  ("U+0017" :> << "\\", "u", "0", "0", "1", "7" >>) @@
  ("U+0018" :> << "\\", "u", "0", "0", "1", "8" >>) @@
  ("U+0019" :> << "\\", "u", "0", "0", "1", "9" >>) @@
  ("U+001a" :> << "\\", "u", "0", "0", "1", "a" >>) @@
  ("U+001b" :> << "\\", "u", "0", "0", "1", "b" >>) @@
  ("U+001c" :> << "\\", "u", "0", "0", "1", "c" >>) @@
  ("U+001d" :> << "\\", "u", "0", "0", "1", "d" >>) @@
  ("U+001e" :> << "\\", "u", "0", "0", "1", "e" >>) @@
  ("U+001f" :> << "\\", "u", "0", "0", "1", "f" >>) @@
  ("U+2028" :> << "\\", "u", "2", "0", "2", "8" >>) @@
  ("U+2029" :> << "\\", "u", "2", "0", "2", "9" >>) @@
  ("invalid" :> << "\\", "u", "f", "f", "f", "d" >>)

\* the toolchain is go1.22 or later: \b and \f are written short; an older
\* one writes \u0008 and \u000c
ShortEscapes == TRUE

\* encoding/json's escaping of one character of a string (HTML escaping on)
JsonChar(ch) ==
  IF ch = "\"" THEN << "\\", "\"" >>
  ELSE IF ch = "\\" THEN << "\\", "\\" >>
  ELSE IF ch = "\n" THEN << "\\", "n" >>
  ELSE IF ch = "\r" THEN << "\\", "r" >>
  ELSE IF ch = "\t" THEN << "\\", "t" >>
  ELSE IF ch = "\f" THEN IF ShortEscapes THEN << "\\", "f" >>
                         ELSE << "\\", "u", "0", "0", "0", "c" >>
  ELSE IF ch = "U+0008" /\ ShortEscapes THEN << "\\", "b" >>
  ELSE IF ch = "<" THEN << "\\", "u", "0", "0", "3", "c" >>
  ELSE IF ch = ">" THEN << "\\", "u", "0", "0", "3", "e" >>
  ELSE IF ch = "&" THEN << "\\", "u", "0", "0", "2", "6" >>
  ELSE IF ch \in DOMAIN UnicodeEscape THEN UnicodeEscape[ch]
  ELSE << ch >>

RECURSIVE JsonEscape(_)
JsonEscape(s) == IF s = << >> THEN << >> ELSE JsonChar(Head(s)) \o JsonEscape(Tail(s))

\* json.Marshal of a string
JsonMarshal(s) == << "\"" >> \o JsonEscape(s) \o << "\"" >>

\* tfgen.go 140-141: fmt.Sprintf("%s = %s", f.Name, string(v))
ScalarLine(name, value) == name \o sAssign \o JsonMarshal(value)

\* tfgen.go 150-151: fmt.Sprintf("  %s,", v)
ItemLine(item) == sIndent \o JsonMarshal(item) \o << "," >>

\* tfgen.go 161-162: fmt.Sprintf("  %s = %s", key, v)
EntryLine(key, item) == sIndent \o key \o sAssign \o JsonMarshal(item)

\* strings.Split(value, "="): the pieces between the separators
RECURSIVE SplitEq(_, _)
SplitEq(s, piece) ==
  IF s = << >> THEN << piece >>
  ELSE IF Head(s) = "=" THEN << piece >> \o SplitEq(Tail(s), << >>)
  ELSE SplitEq(Tail(s), Append(piece, Head(s)))

\* tfgen.go 102-103: index of the first line that contains the name, 0 if none
FirstMatch(ls, name) ==
  IF \E i \in 1..Len(ls) : Contains(ls[i], name)
    THEN CHOOSE i \in 1..Len(ls) :
           /\ Contains(ls[i], name)
           /\ \A j \in 1..(i-1) : ~Contains(ls[j], name)
    ELSE 0

(* Slices: `l` is the view held by the local variable lines, `arr` the     *)
(* array of c.BodyLines                                                    *)

\* the caller's view: c.BodyLines
BodyLines == SubSeq(bodyArr, 1, bodyLen)

\* the elements the view shows
SliceCur(arr, l) == IF l.aliased THEN SubSeq(arr, 1, l.len) ELSE l.own

\* tfgen.go 104-106: copy(lines[i:], lines[i+1:]); lines[len-1] = ""; lines = lines[:len-1]
SliceDelete(arr, l, i) ==
  IF l.aliased
    THEN [ arr |-> SubSeq(arr, 1, i-1) \o SubSeq(arr, i+1, l.len) \o << sEmpty >>
                     \o SubSeq(arr, l.len+1, Len(arr)),
           l   |-> [ l EXCEPT !.len = l.len - 1 ] ]
    ELSE [ arr |-> arr,
           l   |-> [ l EXCEPT !.len = l.len - 1,
                              !.own = SubSeq(l.own, 1, i-1) \o SubSeq(l.own, i+1, l.len) ] ]

\* lines = append(lines, x): in place while the capacity lasts, else into a new array
SliceAppend(arr, l, x) ==
  IF l.aliased
    THEN IF l.len < Len(arr)
           THEN [ arr |-> [ arr EXCEPT ![l.len+1] = x ],
                  l   |-> [ l EXCEPT !.len = l.len + 1 ] ]
           ELSE [ arr |-> arr,
                  l   |-> [ aliased |-> FALSE, len |-> l.len + 1,
                            own |-> Append(SubSeq(arr, 1, l.len), x) ] ]
    ELSE [ arr |-> arr,
           l   |-> [ l EXCEPT !.len = l.len + 1, !.own = Append(l.own, x) ] ]

\* several appends, one after the other
RECURSIVE SliceAppendAll(_, _, _)
SliceAppendAll(arr, l, xs) ==
  IF xs = << >> THEN [ arr |-> arr, l |-> l ]
  ELSE LET s == SliceAppend(arr, l, Head(xs))
       IN SliceAppendAll(s.arr, s.l, Tail(xs))

\* the removal loop skipped for the flags of c.ListFlags
RemoveFirstMatchScalarOnly(arr, l, name) ==
  LET i == FirstMatch(SliceCur(arr, l), name)
  IN IF i = 0 \/ IsList(name) THEN [ arr |-> arr, l |-> l ] ELSE SliceDelete(arr, l, i)

\* tfgen.go 102-109: the removal loop of the Visit callback
RemoveFirstMatch(arr, l, name) ==
  LET i == FirstMatch(SliceCur(arr, l), name)
  IN IF i = 0 THEN [ arr |-> arr, l |-> l ] ELSE SliceDelete(arr, l, i)

\* tfgen.go 147-153: the lines of one list block
ListBlock(name, list) ==
  << sEmpty, name \o sOpenList >> \o [ k \in 1..Len(list) |-> ItemLine(list[k]) ]
    \o << << "]" >> >>

\* the orders in which a range loop can visit the keys of a Go map
Orders(S) ==
  { f \in [1..Cardinality(S) -> S] : \A a, b \in 1..Cardinality(S) : f[a] = f[b] => a = b }

\* tfgen.go 158-164: the lines of one map block, its keys visited in order ko
MapBlock(name, m, ko) ==
  << sEmpty, name \o sOpenMap >> \o [ k \in 1..Len(ko) |-> EntryLine(ko[k], m[ko[k]]) ]
    \o << << "}" >> >>

\* tfgen.go 157-165: all map blocks, the names visited in order ord
RECURSIVE MapBlocks(_, _, _)
MapBlocks(mv, ord, kos) ==
  IF ord = << >> THEN << >>
  ELSE MapBlock(Head(ord), mv[Head(ord)], kos[Head(ord)]) \o MapBlocks(mv, Tail(ord), kos)

\* tfgen.go 126: the parse error of a map value
ParseError(value) == << "Could not parse '", value, "': Expected key=value format" >>

(* A configuration and the calls of Generate on it *)

\* a caller has built a configuration and parsed a command line into c.Flags;
\* the program of main.go is not running
GenInit ==
  /\ args = << >>
  /\ files = FALSE
  /\ pc = "idle"
  /\ hasTfFiles = FALSE
  /\ cmd_i = 0
  /\ cmd_n = << >>
  /\ lifeArgs = << >>
  /\ loaded = << >>
  /\ idx = 0
  /\ isInit = FALSE
  /\ tfErr = "nil"
  /\ exit = -1
  /\ msg = << >>
  /\ log = << >>
  /\ Flags \in CommandLines
  /\ PreLines = << lPre >>
  /\ PostLines = << lPost >>
  /\ body0 \in Bodies
  /\ \E spare \in SpareCapacities : bodyArr = body0 \o [ k \in 1..spare |-> sEmpty ]
  /\ bodyLen = Len(body0)
  /\ genPc = "ready"
  /\ lines = [ aliased |-> TRUE, len |-> 0, own |-> << >> ]
  /\ visitIdx = 0
  /\ listValues = << >>
  /\ mapValues = << >>
  /\ errs = << >>
  /\ pending = {}
  /\ allLines = << >>
  /\ result = "none"
  /\ again = FALSE
  /\ prevLines = << >>

\* tfgen.go 93-98: the locals of Generate; lines shares the array of c.BodyLines
Enter ==
  /\ genPc = "ready"
  /\ lines' = [ aliased |-> TRUE, len |-> bodyLen, own |-> << >> ]
  /\ errs' = << >>
  /\ listValues' = << >>
  /\ mapValues' = << >>
  /\ visitIdx' = 1
  /\ body0' = BodyLines
  /\ allLines' = << >>
  /\ result' = "none"
  /\ IF Visited(Flags) = << >>
       THEN genPc' = "lists" /\ pending' = {}
       ELSE genPc' = "visit" /\ pending' = pending
  /\ UNCHANGED << Flags, PreLines, PostLines, bodyArr, bodyLen, again, prevLines >>
  /\ UNCHANGED vars

\* tfgen.go 100-143: the Visit callback for the next set flag
Visit ==
  /\ genPc = "visit"
  /\ visitIdx <= Len(Visited(Flags))
  /\ LET name  == Visited(Flags)[visitIdx]
         value == ValueString(Flags, name)
         s1    == RemoveFirstMatch(bodyArr, lines, name)
         kv    == SplitEq(value, << >>)
     IN IF IsList(name)
          THEN /\ listValues' =
                    IF name \in DOMAIN listValues
                      THEN [ listValues EXCEPT ![name] = Append(@, value) ]
                      ELSE (name :> << value >>) @@ listValues
               /\ bodyArr' = s1.arr
               /\ lines' = s1.l
               /\ UNCHANGED << mapValues, errs >>
        ELSE IF IsList(name)
          THEN /\ IF Len(kv) < 2
                    THEN /\ errs' = Append(errs, ParseError(value))
                         /\ UNCHANGED mapValues
                    ELSE /\ mapValues' =
                              IF name \in DOMAIN mapValues
                                THEN [ mapValues EXCEPT ![name] = (kv[1] :> kv[2]) @@ @ ]
                                ELSE (name :> (kv[1] :> kv[2])) @@ mapValues
                         /\ UNCHANGED errs
               /\ bodyArr' = s1.arr
               /\ lines' = s1.l
               /\ UNCHANGED listValues
        ELSE LET s2 == SliceAppend(s1.arr, s1.l, ScalarLine(name, value))
             IN /\ bodyArr' = s2.arr
                /\ lines' = s2.l
                /\ UNCHANGED << listValues, mapValues, errs >>
  /\ visitIdx' = visitIdx + 1
  /\ IF visitIdx = Len(Visited(Flags))
       THEN genPc' = "lists" /\ pending' = DOMAIN listValues'
       ELSE genPc' = "visit" /\ pending' = pending
  /\ UNCHANGED << Flags, PreLines, PostLines, bodyLen, body0, allLines, result,
                  again, prevLines >>
  /\ UNCHANGED vars

\* tfgen.go 146-154: one round of the range loop over listValues
ExpandList ==
  /\ genPc = "lists"
  /\ \E varName \in pending :
       LET s == SliceAppendAll(bodyArr, lines, ListBlock(varName, listValues[varName]))
       IN /\ bodyArr' = s.arr
          /\ lines' = s.l
          /\ pending' = pending \ { varName }
  /\ UNCHANGED << Flags, PreLines, PostLines, bodyLen, body0, genPc, visitIdx,
                  listValues, mapValues, errs, allLines, result, again, prevLines >>
  /\ UNCHANGED vars

\* tfgen.go 156-165: the range loop over mapValues
ExpandMaps ==
  /\ genPc = "lists"
  /\ pending = {}
  /\ \E ord \in Orders(DOMAIN mapValues) :
       \E kos \in [ DOMAIN mapValues ->
                    UNION { Orders(DOMAIN mapValues[n]) : n \in DOMAIN mapValues } ] :
         /\ \A n \in DOMAIN mapValues : kos[n] \in Orders(DOMAIN mapValues[n])
         /\ LET s == SliceAppendAll(bodyArr, lines, MapBlocks(mapValues, ord, kos))
            IN /\ bodyArr' = s.arr
               /\ lines' = s.l
  /\ genPc' = "compose"
  /\ UNCHANGED << Flags, PreLines, PostLines, bodyLen, body0, visitIdx, listValues,
                  mapValues, errs, pending, allLines, result, again, prevLines >>
  /\ UNCHANGED vars

\* tfgen.go 167-170: PreLines, then c.BodyLines, then lines, then PostLines
Compose ==
  /\ genPc = "compose"
  /\ allLines' = PreLines \o BodyLines \o SliceCur(bodyArr, lines) \o PostLines
  /\ genPc' = "format"
  /\ UNCHANGED << Flags, PreLines, PostLines, bodyArr, bodyLen, body0, lines, visitIdx,
                  listValues, mapValues, errs, pending, result, again, prevLines >>
  /\ UNCHANGED vars

\* tfgen.go 172-179: printer.Format accepts the text or not; errs is not looked at
Format ==
  /\ genPc = "format"
  /\ \E err \in Errs : result' = IF err # "nil" THEN "formatError" ELSE "ok"
  /\ genPc' = "done"
  /\ UNCHANGED << Flags, PreLines, PostLines, bodyArr, bodyLen, body0, lines, visitIdx,
                  listValues, mapValues, errs, pending, allLines, again, prevLines >>
  /\ UNCHANGED vars

\* the caller calls Generate once more on the same configuration
CallAgain ==
  /\ genPc = "done"
  /\ genPc' = "ready"
  /\ again' = TRUE
  /\ prevLines' = allLines
  /\ UNCHANGED << Flags, PreLines, PostLines, bodyArr, bodyLen, body0, lines, visitIdx,
                  listValues, mapValues, errs, pending, allLines, result >>
  /\ UNCHANGED vars

GenNext ==
  \/ Enter
  \/ Visit
  \/ ExpandList
  \/ ExpandMaps
  \/ Compose
  \/ Format
  \/ CallAgain

SpecGen == GenInit /\ [][GenNext]_allVars

-----------------------------------------------------------------------------
(* What a call of Generate shows *)

\* the flag is named in the list
NamedIn(names, name) == \E k \in 1..Len(names) : names[k] = name

\* a scalar flag: neither in c.ListFlags nor in c.MapFlags
IsScalar(name) == ~NamedIn(ListFlags, name) /\ ~NamedIn(MapFlags, name)

\* the names of the set flags
SetNames == { FlagNames[k] : k \in { j \in 1..Len(FlagNames) : IsSet(Flags, FlagNames[j]) } }

\* the sequence without its i-th element
Without(ls, i) == [ k \in 1..(Len(ls) - 1) |-> IF k < i THEN ls[k] ELSE ls[k + 1] ]

\* how often the line occurs
Count(ls, x) == Cardinality({ k \in 1..Len(ls) : ls[k] = x })

\* the positions of the line
Positions(ls, x) == { k \in 1..Len(ls) : ls[k] = x }

\* s can be had from t by leaving lines out
RECURSIVE IsSubsequence(_, _)
IsSubsequence(s, t) ==
  IF s = << >> THEN TRUE
  ELSE IF t = << >> THEN FALSE
  ELSE IF Head(s) = Head(t) THEN IsSubsequence(Tail(s), Tail(t))
  ELSE IsSubsequence(s, Tail(t))

\* the text has been assembled by the call in progress
Assembled == genPc \in { "format", "done" }

\* the working body: what the local slice lines shows
Working == SliceCur(bodyArr, lines)

-----------------------------------------------------------------------------
(* Claims about Generate *)

\* C19: the removal happens for every supplied flag regardless of its type.
\* Each step of Visit takes the first line of the working body that contains
\* the flag's name out of it and leaves the other lines in their order; for a
\* list-typed flag nothing else changes in the working body at that step (its
\* value goes to listValues, and its block is appended only later, by the
\* expansion loop), for any other flag the assignment line follows at the end.
C19_RemovalForEveryFlagType ==
  [][ genPc = "visit" =>
        LET name == Visited(Flags)[visitIdx]
            i    == FirstMatch(Working, name)
            rest == IF i = 0 THEN Working ELSE Without(Working, i)
        IN /\ IsList(name) =>
                /\ Working' = rest
                /\ name \in DOMAIN listValues'
                /\ Count(Working', name \o sOpenList) = 0
           /\ ~IsList(name) =>
                Working' = Append(rest, ScalarLine(name, ValueString(Flags, name)))
    ]_allVars

\* a list-typed flag was set, the body held a line with its name, and the
\* expansion loop has not run yet: the line is gone from the working body
C19_Witness ==
  /\ genPc = "lists"
  /\ ~again
  /\ pending = { nTags }
  /\ Count(body0, lTagsOld) = 1
  /\ Count(Working, lTagsOld) = 0
  /\ Len(Working) >= 1

\* the first call of Generate on a configuration has assembled its text
FirstCallAssembled == Assembled /\ ~again

\* the body lines other than the i-th that contain the name of no set flag but `name`
KeptLines(body, i, name) ==
  SelectSeq(Without(body, i),
            LAMBDA ln : \A other \in SetNames \ { name } : ~Contains(ln, other))

\* the line occurs in the text and no line of `kept` comes after its last occurrence
AtEndOfBody(text, line, kept) ==
  \E p \in Positions(text, line) :
    \A q \in (p + 1)..Len(text) : text[q] # line /\ Count(kept, text[q]) = 0

\* C11: for a body that holds a line containing the name of a supplied scalar
\* flag, the assembled text no longer holds the first such line, the other
\* body lines (later matching lines included) appear in their original
\* relative order, and the new assignment line stands at the end of the body.
C11_FirstMatchReplaced ==
  FirstCallAssembled =>
    \A name \in SetNames :
      (IsScalar(name) /\ FirstMatch(body0, name) # 0) =>
        LET i    == FirstMatch(body0, name)
            kept == KeptLines(body0, i, name)
        IN /\ Count(Without(body0, i), body0[i]) = 0 => Count(allLines, body0[i]) = 0
           /\ IsSubsequence(kept, allLines)
           /\ AtEndOfBody(allLines, ScalarLine(name, ValueString(Flags, name)), kept)

\* the body lines that contain the name of no set flag
UntouchedLines(body) ==
  SelectSeq(body, LAMBDA ln : \A other \in SetNames : ~Contains(ln, other))

\* C12: for a body without a line containing the name of a supplied scalar
\* flag, the assembled text holds the new assignment line (value JSON-escaped)
\* exactly once, no body line comes after it, and no body line is removed.
C12_NewScalarAppendedOnce ==
  FirstCallAssembled =>
    \A name \in SetNames :
      (IsScalar(name) /\ FirstMatch(body0, name) = 0) =>
        LET newLine == ScalarLine(name, ValueString(Flags, name))
        IN /\ Count(allLines, newLine) = 1
           /\ \A p \in Positions(allLines, newLine) :
                \A q \in (p + 1)..Len(allLines) : Count(body0, allLines[q]) = 0
           /\ IsSubsequence(UntouchedLines(body0), allLines)

\* the block occurs in the text, line after line
HoldsBlock(text, block) ==
  \E p \in 1..(Len(text) - Len(block) + 1) : SubSeq(text, p, p + Len(block) - 1) = block

\* C13: a supplied map-typed flag whose value has no `=` makes Generate return
\* an error that identifies the value, and no text; with a value k=v the text
\* holds the block `name = {`, `  k = "v"`, `}` and no scalar assignment line
\* for the flag.
C13_MapFlagParsedOrRejected ==
  (genPc = "done" /\ ~again) =>
    \A name \in SetNames :
      NamedIn(MapFlags, name) =>
        LET value == ValueString(Flags, name)
            kv    == SplitEq(value, << >>)
        IN IF Len(kv) < 2
             THEN /\ result # "ok"
                  /\ Count(errs, ParseError(value)) >= 1
             ELSE /\ HoldsBlock(allLines, << name \o sOpenMap, EntryLine(kv[1], kv[2]), << "}" >> >>)
                  /\ Count(allLines, ScalarLine(name, value)) = 0

\* the values given for the flag on the command line, in order
SuppliedValues(fl, name) ==
  LET occ == SelectSeq(fl, LAMBDA o : o[1] = name)
  IN [ k \in 1..Len(occ) |-> occ[k][2] ]

\* C14: a supplied list-typed flag with values v1..vn gives, after the body and
\* a blank line, the block `name = [`, one indented JSON-quoted line with a
\* trailing comma per value in the order given, and `]`; no scalar assignment
\* line is emitted for the flag.
C14_ListBlockPerValue ==
  FirstCallAssembled =>
    \A name \in SetNames :
      NamedIn(ListFlags, name) =>
        LET vals  == SuppliedValues(Flags, name)
            block == << sEmpty, name \o sOpenList >>
                       \o [ k \in 1..Len(vals) |-> ItemLine(vals[k]) ] \o << << "]" >> >>
        IN /\ HoldsBlock(allLines, block)
           /\ \A k \in 1..Len(vals) : Count(allLines, ScalarLine(name, vals[k])) = 0

\* C18: Generate leaves the configuration unchanged: after a call c.BodyLines,
\* c.PreLines and c.PostLines hold the lines they held before it, and a second
\* call with the same flags assembles the same text as the one before.
C18_ConfigurationUnchanged ==
  genPc = "done" =>
    /\ BodyLines = body0
    /\ PreLines = << lPre >>
    /\ PostLines = << lPost >>
    /\ again => allLines = prevLines

====
